---- MODULE Spec2Model ----
(***************************************************************************)
(* Model of src/app/inventory/store/stats-conditional.ts: the plug stat    *)
(* activity rules (getPlugInvestmentStatActivityRule, isPlugStatActive),   *)
(* the investment stat merger / elaborator (getPlugInvestmentStats,        *)
(* mapAndFilterInvestmentStats) and the plug description composer          *)
(* (usePlugDescriptions, getPerkDescriptions, stripUsedStrings).           *)
(*                                                                         *)
(* The functions are pure; each one is an operator computed the way the    *)
(* code computes it, and an action applies it once to inputs drawn from    *)
(* bounded sets and records the inputs, the result and the warnings.       *)
(*                                                                         *)
(* Encoding of JavaScript values:                                          *)
(*   - hashes and enum members are strings (the real hashes exceed 2^31);  *)
(*   - an optional object (item, craftedInfo, the community perk, a line's *)
(*     lineText ...) is a sequence of length 0 (undefined) or 1;           *)
(*   - an optional string or enum is the string UNDEFINED when absent; an  *)
(*     empty string "" is falsy exactly as in the code;                    *)
(*   - the activity rule `undefined` (always active) is NoRule.            *)
(***************************************************************************)
EXTENDS Integers, Sequences, FiniteSets, TLC

VARIABLES
    pc,                 \* "idle" before the call, the called function's name after it
    itemDef,            \* the plug definition given to the stat functions
    stat,               \* the investment stat given to getPlugInvestmentStatActivityRule
    rule,               \* the activity rule returned / given to isPlugStatActive
    item,               \* isPlugStatActive's item argument (optional)
    classType,          \* isPlugStatActive's classType argument (optional)
    active,             \* isPlugStatActive's result
    stats,              \* mapAndFilterInvestmentStats' result
    log,                \* the warnLog / infoLog messages of the call
    plug,               \* the plug given to the description functions (optional)
    defs,               \* the manifest definitions (optional)
    clarityPerk,        \* allClarityDescriptions?.[plug.hash] (optional)
    descriptionsToDisplay,  \* the setting: "bungie", "community" or "both"
    clarityDescriptions,    \* $featureFlags.clarityDescriptions
    perkDescriptions,   \* getPerkDescriptions' result: perks and usedStrings
    result              \* usePlugDescriptions' result: perks and communityInsight

vars == <<pc, itemDef, stat, rule, item, classType, active, stats, log,
          plug, defs, clarityPerk, descriptionsToDisplay, clarityDescriptions,
          perkDescriptions, result>>

UNDEFINED == "undefined"

(***************************************************************************)
(* Bounds of the model.                                                    *)
(***************************************************************************)
MaxStats == 4           \* longest raw investmentStats list with repeated stat types
MaxPerks == 2           \* longest perks list given to getPerkDescriptions
MaxLines == 2           \* longest simpleDescription of a community insight

(***************************************************************************)
(* Identifiers and enum members the code names.                            *)
(***************************************************************************)
ElementalCapacitor == "ElementalCapacitor"
EnhancedElementalCapacitor == "EnhancedElementalCapacitor"
EchoOfPersistence == "EchoOfPersistence"
SparkOfFocus == "SparkOfFocus"
Bipod == "Bipod_2282937672"
AdeptMasterwork == "AdeptMasterwork"        \* a hash listed only in masterworks-with-cond-stats
EnhancedIntrinsic == "EnhancedIntrinsic"    \* a hash listed only in crafting-enhanced-intrinsics
DualListed == "DualListed"                  \* a hash listed in both allow-lists
OtherHash == "OtherHash"                    \* a hash with no special case

ItemExoticCatalyst == "ItemExoticCatalyst"
CraftingPlugsWeaponsModsEnhancers == "CraftingPlugsWeaponsModsEnhancers"
OtherPlugCategory == "OtherPlugCategory"

Mobility == "Mobility"
Resilience == "Resilience"
Recovery == "Recovery"
BlastRadius == "BlastRadius"
ReloadSpeed == "ReloadSpeed"

Titan == "Titan"
Hunter == "Hunter"
Warlock == "Warlock"
Unknown == "Unknown"
DestinyClass == {Titan, Hunter, Warlock, Unknown}

\* The two imported allow-lists.  Their contents are manifest data; the model
\* lets them overlap each other and the hard-coded identifiers, so that every
\* combination of branches of the rule ladder can match at once.
masterworksWithCondStats ==
    {AdeptMasterwork, DualListed, EnhancedElementalCapacitor, SparkOfFocus}

enhancedIntrinsics ==
    {EnhancedIntrinsic, DualListed, ElementalCapacitor, SparkOfFocus}

\* Item hashes: one in adept-weapon-hashes.json, one not.
AdeptWeapon == "AdeptWeapon"
PlainWeapon == "PlainWeapon"
adeptWeaponHashes == {AdeptWeapon}

NoRule == [rule |-> UNDEFINED]

(***************************************************************************)
(* getPlugInvestmentStatActivityRule                                       *)
(***************************************************************************)
ClassDrainClassType(s) ==
    IF s.statTypeHash = Mobility THEN Hunter
    ELSE IF s.statTypeHash = Resilience THEN Titan
    ELSE IF s.statTypeHash = Recovery THEN Warlock
    ELSE UNDEFINED

\* Mutant: the elemental-capacitor branch tests only the first identifier.
ActivityRuleOneCapacitor(d, s) ==
    IF ItemExoticCatalyst \in d.traitHashes THEN [rule |-> "masterwork"]
    ELSE IF ~s.isConditionallyActive THEN NoRule
    ELSE IF d.plug.plugCategoryHash = CraftingPlugsWeaponsModsEnhancers
        THEN [rule |-> "never"]
    ELSE IF d.hash = ElementalCapacitor
        THEN [rule |-> "never"]
    ELSE IF d.hash = EchoOfPersistence \/ d.hash = SparkOfFocus
        THEN IF ClassDrainClassType(s) = UNDEFINED
             THEN NoRule
             ELSE [rule |-> "classType", classType |-> ClassDrainClassType(s)]
    ELSE IF d.hash \in masterworksWithCondStats THEN [rule |-> "adeptWeapon"]
    ELSE IF d.hash \in enhancedIntrinsics THEN [rule |-> "enhancedIntrinsic"]
    ELSE NoRule

\* Mutant: the allow-lists are consulted before the class-ability-drain branch.
ActivityRuleListsFirst(d, s) ==
    IF ItemExoticCatalyst \in d.traitHashes THEN [rule |-> "masterwork"]
    ELSE IF ~s.isConditionallyActive THEN NoRule
    ELSE IF d.plug.plugCategoryHash = CraftingPlugsWeaponsModsEnhancers
        THEN [rule |-> "never"]
    ELSE IF d.hash = ElementalCapacitor \/ d.hash = EnhancedElementalCapacitor
        THEN [rule |-> "never"]
    ELSE IF d.hash \in masterworksWithCondStats THEN [rule |-> "adeptWeapon"]
    ELSE IF d.hash \in enhancedIntrinsics THEN [rule |-> "enhancedIntrinsic"]
    ELSE IF d.hash = EchoOfPersistence \/ d.hash = SparkOfFocus
        THEN IF ClassDrainClassType(s) = UNDEFINED
             THEN NoRule
             ELSE [rule |-> "classType", classType |-> ClassDrainClassType(s)]
    ELSE NoRule

getPlugInvestmentStatActivityRule(d, s) ==
    IF ItemExoticCatalyst \in d.traitHashes THEN [rule |-> "masterwork"]
    ELSE IF ~s.isConditionallyActive THEN NoRule
    ELSE IF d.plug.plugCategoryHash = CraftingPlugsWeaponsModsEnhancers
        THEN [rule |-> "never"]
    ELSE IF d.hash = ElementalCapacitor \/ d.hash = EnhancedElementalCapacitor
        THEN [rule |-> "never"]
    ELSE IF d.hash = EchoOfPersistence \/ d.hash = SparkOfFocus
        THEN IF ClassDrainClassType(s) = UNDEFINED
             THEN NoRule
             ELSE [rule |-> "classType", classType |-> ClassDrainClassType(s)]
    ELSE IF d.hash \in masterworksWithCondStats THEN [rule |-> "adeptWeapon"]
    ELSE IF d.hash \in enhancedIntrinsics THEN [rule |-> "enhancedIntrinsic"]
    ELSE NoRule

\* the warnLog of the class-ability-drain branch
ActivityRuleWarnings(d, s) ==
    IF /\ ItemExoticCatalyst \notin d.traitHashes
       /\ s.isConditionallyActive
       /\ d.plug.plugCategoryHash # CraftingPlugsWeaponsModsEnhancers
       /\ d.hash \notin {ElementalCapacitor, EnhancedElementalCapacitor}
       /\ d.hash \in {EchoOfPersistence, SparkOfFocus}
       /\ ClassDrainClassType(s) = UNDEFINED
    THEN {"unknown stat effect"}
    ELSE {}

(***************************************************************************)
(* isPlugStatActive                                                        *)
(***************************************************************************)
\* classType ??= item?.classType
EffectiveClassType(it, ct) ==
    IF ct # UNDEFINED THEN ct
    ELSE IF Len(it) = 1 THEN it[1].classType
    ELSE UNDEFINED

\* item.craftedInfo?.level || 0
CraftedLevel(i) == IF Len(i.craftedInfo) = 1 THEN i.craftedInfo[1].level ELSE 0

\* Mutant: the masterwork rule fails closed (false) when there is no item.
isPlugStatActiveFailClosed(r, it, ct) ==
    IF r = NoRule THEN TRUE
    ELSE IF r.rule = "never" THEN FALSE
    ELSE IF r.rule = "classType" THEN
        IF EffectiveClassType(it, ct) = UNDEFINED THEN TRUE
        ELSE EffectiveClassType(it, ct) = r.classType
    ELSE IF r.rule = "adeptWeapon" THEN
        IF Len(it) = 1 THEN it[1].hash \in adeptWeaponHashes ELSE TRUE
    ELSE IF r.rule = "masterwork" THEN
        IF Len(it) = 1 THEN it[1].masterwork ELSE FALSE
    ELSE
        IF Len(it) = 1
        THEN CraftedLevel(it[1]) >= 20 \/ it[1].hash \in adeptWeaponHashes
        ELSE TRUE

isPlugStatActive(r, it, ct) ==
    IF r = NoRule THEN TRUE
    ELSE IF r.rule = "never" THEN FALSE
    ELSE IF r.rule = "classType" THEN
        IF EffectiveClassType(it, ct) = UNDEFINED THEN TRUE
        ELSE EffectiveClassType(it, ct) = r.classType
    ELSE IF r.rule = "adeptWeapon" THEN
        IF Len(it) = 1 THEN it[1].hash \in adeptWeaponHashes ELSE TRUE
    ELSE IF r.rule = "masterwork" THEN
        IF Len(it) = 1 THEN it[1].masterwork ELSE TRUE
    ELSE \* "enhancedIntrinsic"
        IF Len(it) = 1
        THEN CraftedLevel(it[1]) >= 20 \/ it[1].hash \in adeptWeaponHashes
        ELSE TRUE

isPlugStatActiveWarnings(r, it, ct) ==
    IF r = NoRule \/ r.rule = "never" THEN {}
    ELSE IF r.rule = "classType" THEN
        IF EffectiveClassType(it, ct) = UNDEFINED
        THEN {"stat condition depends on class type but we do not have a class type here"}
        ELSE {}
    ELSE IF Len(it) = 1 THEN {}
    ELSE {"stat condition depends on item but we do not have an item here"}

(***************************************************************************)
(* getPlugInvestmentStats: entries of one stat type are added into the     *)
(* first entry of that type.                                               *)
(***************************************************************************)
\* Array.prototype.findIndex on statTypeHash, 1-based; 0 when there is none
\* (the code's -1).
findIndex(processedStats, statTypeHash) ==
    IF \E i \in 1..Len(processedStats) : processedStats[i].statTypeHash = statTypeHash
    THEN CHOOSE i \in 1..Len(processedStats) :
            /\ processedStats[i].statTypeHash = statTypeHash
            /\ \A j \in 1..(i - 1) : processedStats[j].statTypeHash # statTypeHash
    ELSE 0

\* one iteration of the loop body
\* Mutant: a repeated stat type keeps the existing entry and loses the new value.
MergeStatKeepExisting(processedStats, investmentStat) ==
    LET existingStatIndex == findIndex(processedStats, investmentStat.statTypeHash) IN
    IF existingStatIndex >= 1
    THEN processedStats
    ELSE Append(processedStats, investmentStat)

MergeStat(processedStats, investmentStat) ==
    LET existingStatIndex == findIndex(processedStats, investmentStat.statTypeHash) IN
    IF existingStatIndex >= 1
    THEN [processedStats EXCEPT
            ![existingStatIndex] = [@ EXCEPT !.value = @ + investmentStat.value]]
    ELSE Append(processedStats, investmentStat)

RECURSIVE MergeFrom(_, _, _)
MergeFrom(processedStats, investmentStats, i) ==
    IF i > Len(investmentStats) THEN processedStats
    ELSE MergeFrom(MergeStat(processedStats, investmentStats[i]), investmentStats, i + 1)

getPlugInvestmentStats(investmentStats) == MergeFrom(<<>>, investmentStats, 1)

(***************************************************************************)
(* mapAndFilterInvestmentStats                                             *)
(***************************************************************************)
\* uniqBy(investmentStats, (s) => s.statTypeHash).length
UniqByStatTypeLength(investmentStats) ==
    Cardinality({investmentStats[i].statTypeHash : i \in 1..Len(investmentStats)})

\* the condition of the fast path's `if`
FastPathApplies(d, investmentStats) ==
    /\ ItemExoticCatalyst \notin d.traitHashes
    /\ \A i \in 1..Len(investmentStats) : ~investmentStats[i].isConditionallyActive

\* `hasDupes`: undefined (falsy) unless the fast path's condition held
hasDupes(d, investmentStats) ==
    /\ FastPathApplies(d, investmentStats)
    /\ UniqByStatTypeLength(investmentStats) # Len(investmentStats)

\* the Bipod workaround: the entry at 0-based index >= 2 of a 4-entry list
BipodDrops(d, investmentStats, i) ==
    /\ d.hash = Bipod
    /\ Len(investmentStats) = 4
    /\ (i - 1) >= 2

\* the filterMap callback for the entry at (1-based) position i: <<>> when it
\* returns undefined, else the one elaborated entry
ElaborateStat(d, investmentStats, i) ==
    IF BipodDrops(d, investmentStats, i) THEN <<>>
    ELSE LET activityRule == getPlugInvestmentStatActivityRule(d, investmentStats[i]) IN
         IF activityRule.rule = "never" THEN <<>>
         ELSE << [activityRule |-> activityRule,
                  statTypeHash |-> investmentStats[i].statTypeHash,
                  value |-> investmentStats[i].value] >>

RECURSIVE FilterMapFrom(_, _, _)
FilterMapFrom(d, investmentStats, i) ==
    IF i > Len(investmentStats) THEN <<>>
    ELSE ElaborateStat(d, investmentStats, i) \o FilterMapFrom(d, investmentStats, i + 1)

\* stats.splice(idx2, 1), 1-based
Splice(s, k) == [j \in 1..(Len(s) - 1) |-> IF j < k THEN s[j] ELSE s[j + 1]]

\* the inner loop `for (idx2 = stats.length - 1; idx2 > idx; idx2--)`, 1-based
RECURSIVE ConsolidateInner(_, _, _)
ConsolidateInner(s, idx, idx2) ==
    IF idx2 <= idx THEN s
    ELSE IF /\ s[idx].statTypeHash = s[idx2].statTypeHash
            /\ s[idx].activityRule.rule = s[idx2].activityRule.rule
         THEN ConsolidateInner(
                 Splice([s EXCEPT ![idx] = [@ EXCEPT !.value = @ + s[idx2].value]], idx2),
                 idx, idx2 - 1)
         ELSE ConsolidateInner(s, idx, idx2 - 1)

\* the outer loop `for (idx = stats.length - 2; idx >= 0; idx--)`, 1-based
RECURSIVE ConsolidateOuter(_, _)
ConsolidateOuter(s, idx) ==
    IF idx < 1 THEN s
    ELSE ConsolidateOuter(ConsolidateInner(s, idx, Len(s)), idx - 1)

Consolidate(s) == ConsolidateOuter(s, Len(s) - 1)

\* the code after the fast path: filterMap, then the consolidation if hasDupes
FullElaboration(d, investmentStats) ==
    LET s == FilterMapFrom(d, investmentStats, 1) IN
    IF hasDupes(d, investmentStats) THEN Consolidate(s) ELSE s

mapAndFilterInvestmentStats(d) ==
    LET investmentStats == getPlugInvestmentStats(d.investmentStats) IN
    IF FastPathApplies(d, investmentStats) /\ ~hasDupes(d, investmentStats)
    THEN investmentStats
    ELSE FullElaboration(d, investmentStats)

\* the warnings of a mapAndFilterInvestmentStats call
mapAndFilterWarnings(d) ==
    LET investmentStats == getPlugInvestmentStats(d.investmentStats) IN
    IF FastPathApplies(d, investmentStats) /\ ~hasDupes(d, investmentStats) THEN {}
    ELSE (IF d.hash = Bipod /\ Len(investmentStats) # 4 /\ Len(investmentStats) > 0
          THEN {"enhanced bipod workaround does not apply anymore"} ELSE {})
         \cup UNION { IF BipodDrops(d, investmentStats, i) THEN {}
                      ELSE ActivityRuleWarnings(d, investmentStats[i])
                      : i \in 1..Len(investmentStats) }

(***************************************************************************)
(* getPerkDescriptions                                                     *)
(*                                                                         *)
(* A perk description entry is [perkHash, name, description, requirement]; *)
(* an absent name, description or requirement is UNDEFINED.  The function  *)
(* threads `results` and `usedStrings` through its helpers: here a record  *)
(* acc = [results, usedStrings].                                           *)
(***************************************************************************)
ArmorMods == "ArmorMods"
Hidden == "Hidden"
Visible == "Visible"
NoPerkHash == "0"                   \* perkHash: 0 of the synthesized entries
ChargeHarvesterPerk0 == "ChargeHarvesterPerk0"
ChargeHarvesterPerk1 == "ChargeHarvesterPerk1"

\* `x || undefined` on a string
OrUndefined(x) == IF x = "" THEN UNDEFINED ELSE x

\* a string that is set and not empty
Truthy(x) == x # UNDEFINED /\ x # ""

\* perkName && perkName !== plug.displayProperties.name ? perkName : undefined
EntryName(perkName, p) ==
    IF Truthy(perkName) /\ perkName # p.displayProperties.name THEN perkName ELSE UNDEFINED

\* the body of the `for (const perk of perks)` loop
AddPerk(acc, perk, p, d) ==
    IF perk.perkVisibility = Hidden THEN acc
    ELSE
    LET sandboxPerk == d.SandboxPerk[perk.perkHash]
        candidate == OrUndefined(sandboxPerk.displayProperties.description)
        perkDescription ==
            IF candidate # UNDEFINED /\ candidate \in acc.usedStrings
            THEN UNDEFINED ELSE candidate
        used1 == IF perkDescription # UNDEFINED
                 THEN acc.usedStrings \cup {perkDescription} ELSE acc.usedStrings
        candidateReq == OrUndefined(perk.requirementDisplayString)
        perkRequirement ==
            IF candidateReq # UNDEFINED /\ candidateReq \in used1
            THEN UNDEFINED ELSE candidateReq
        used2 == IF perkRequirement # UNDEFINED
                 THEN used1 \cup {perkRequirement} ELSE used1
    IN  [results |->
            IF perkDescription # UNDEFINED \/ perkRequirement # UNDEFINED
            THEN Append(acc.results,
                        [perkHash |-> perk.perkHash,
                         name |-> EntryName(sandboxPerk.displayProperties.name, p),
                         description |-> perkDescription,
                         requirement |-> perkRequirement])
            ELSE acc.results,
         usedStrings |-> used2]

RECURSIVE AddPerksFrom(_, _, _, _, _)
AddPerksFrom(acc, perks, i, p, d) ==
    IF i > Len(perks) THEN acc
    ELSE AddPerksFrom(AddPerk(acc, perks[i], p, d), perks, i + 1, p, d)

\* [...plug.perks], plus Charge Harvester's perks[1] for Echo of Persistence
PerksToDescribe(p, d) ==
    IF p.hash = EchoOfPersistence
    THEN Append(p.perks, d.chargeHarvester.perks[2])
    ELSE p.perks

addPerkDescriptions(acc, p, d) == AddPerksFrom(acc, PerksToDescribe(p, d), 1, p, d)

plugDescription(p) == OrUndefined(p.displayProperties.description)

\* Mutant: the description is added as a requirement without looking at usedStrings.
addDescriptionAsRequirementUnchecked(acc, p) ==
    IF plugDescription(p) # UNDEFINED
    THEN [results |-> Append(acc.results,
                        [perkHash |-> NoPerkHash, name |-> UNDEFINED,
                         description |-> UNDEFINED,
                         requirement |-> plugDescription(p)]),
          usedStrings |-> acc.usedStrings \cup {plugDescription(p)}]
    ELSE acc

addDescriptionAsRequirement(acc, p) ==
    IF plugDescription(p) # UNDEFINED /\ plugDescription(p) \notin acc.usedStrings
    THEN [results |-> Append(acc.results,
                        [perkHash |-> NoPerkHash, name |-> UNDEFINED,
                         description |-> UNDEFINED,
                         requirement |-> plugDescription(p)]),
          usedStrings |-> acc.usedStrings \cup {plugDescription(p)}]
    ELSE acc

addDescriptionAsFunctionality(acc, p) ==
    IF plugDescription(p) # UNDEFINED /\ plugDescription(p) \notin acc.usedStrings
    THEN [results |-> Append(acc.results,
                        [perkHash |-> NoPerkHash, name |-> UNDEFINED,
                         description |-> plugDescription(p),
                         requirement |-> UNDEFINED]),
          usedStrings |-> acc.usedStrings \cup {plugDescription(p)}]
    ELSE acc

\* Mutant: an armor mod's description is always added as a requirement.
DescribeByKindArmorRequirement(p, d) ==
    LET empty == [results |-> <<>>, usedStrings |-> {}] IN
    IF ItemExoticCatalyst \in p.traitHashes
    THEN addDescriptionAsRequirement(addPerkDescriptions(empty, p, d), p)
    ELSE IF ArmorMods \in p.itemCategoryHashes
    THEN addDescriptionAsRequirement(addPerkDescriptions(empty, p, d), p)
    ELSE IF plugDescription(p) # UNDEFINED
         THEN addDescriptionAsFunctionality(empty, p)
         ELSE addPerkDescriptions(empty, p, d)

\* the three-way branch on the plug's kind
DescribeByKind(p, d) ==
    LET empty == [results |-> <<>>, usedStrings |-> {}] IN
    IF ItemExoticCatalyst \in p.traitHashes
    THEN addDescriptionAsRequirement(addPerkDescriptions(empty, p, d), p)
    ELSE IF ArmorMods \in p.itemCategoryHashes
    THEN LET acc == addPerkDescriptions(empty, p, d) IN
         IF Len(acc.results) > 0
         THEN addDescriptionAsRequirement(acc, p)
         ELSE addDescriptionAsFunctionality(acc, p)
    ELSE IF plugDescription(p) # UNDEFINED
         THEN addDescriptionAsFunctionality(empty, p)
         ELSE addPerkDescriptions(empty, p, d)

\* the fallback: keep the first perk when nothing was produced
FirstPerkFallback(acc, p, d) ==
    IF Len(acc.results) = 0 /\ Len(p.perks) > 0
    THEN
    LET firstPerk == p.perks[1]
        sandboxPerk == d.SandboxPerk[firstPerk.perkHash]
        desc == sandboxPerk.displayProperties.description
        description == IF Truthy(desc) /\ desc \notin acc.usedStrings
                       THEN desc ELSE UNDEFINED
        used1 == IF description # UNDEFINED
                 THEN acc.usedStrings \cup {description} ELSE acc.usedStrings
        req == firstPerk.requirementDisplayString
        requirement == IF Truthy(req) /\ req \notin used1 THEN req ELSE UNDEFINED
        used2 == IF requirement # UNDEFINED THEN used1 \cup {requirement} ELSE used1
    IN  [results |->
            IF description # UNDEFINED \/ requirement # UNDEFINED
            THEN Append(acc.results,
                        [perkHash |-> firstPerk.perkHash,
                         name |-> EntryName(sandboxPerk.displayProperties.name, p),
                         description |-> description,
                         requirement |-> requirement])
            ELSE acc.results,
         usedStrings |-> used2]
    ELSE acc

getPerkDescriptions(p, d) ==
    LET acc == FirstPerkFallback(DescribeByKind(p, d), p, d) IN
    [perks |-> acc.results, usedStrings |-> acc.usedStrings]

(***************************************************************************)
(* stripUsedStrings                                                        *)
(*                                                                         *)
(* A community insight is [statOnly, simpleDescription]; simpleDescription *)
(* is optional, a line is [lineText] with lineText optional, and a content *)
(* is [text] with "" for a content without text.                           *)
(***************************************************************************)
\* line.lineText.filter((content) => !content.text || !usedStrings.has(content.text))
FilterContents(lineText, usedStrings) ==
    SelectSeq(lineText, LAMBDA content : content.text = "" \/ content.text \notin usedStrings)

StripLine(line, usedStrings) ==
    IF Len(line.lineText) = 1
    THEN [line EXCEPT !.lineText = <<FilterContents(line.lineText[1], usedStrings)>>]
    ELSE line

\* line.lineText?.length
HasContent(line) == Len(line.lineText) = 1 /\ Len(line.lineText[1]) > 0

\* <<>> for undefined, else the one stripped insight
stripUsedStrings(communityInsight, usedStrings) ==
    IF Len(communityInsight.simpleDescription) = 0 THEN <<>>
    ELSE
    LET lines == communityInsight.simpleDescription[1]
        simpleDescription == [i \in 1..Len(lines) |-> StripLine(lines[i], usedStrings)]
    IN  IF ~\E i \in 1..Len(simpleDescription) : HasContent(simpleDescription[i])
        THEN <<>>
        ELSE << [communityInsight EXCEPT !.simpleDescription = <<simpleDescription>>] >>

(***************************************************************************)
(* usePlugDescriptions                                                     *)
(***************************************************************************)
showBungieDescription(flag, toDisplay) == ~flag \/ toDisplay # "community"
showCommunityDescription(flag, toDisplay) == flag /\ toDisplay # "bungie"
showCommunityDescriptionOnly(flag, toDisplay) == flag /\ toDisplay = "community"

\* result.communityInsight after the `if (showCommunityDescription)` block
CommunityInsight(official, clarity, flag, toDisplay) ==
    IF /\ showCommunityDescription(flag, toDisplay)
       /\ Len(clarity) = 1
       /\ ~clarity[1].statOnly
       /\ Len(stripUsedStrings(clarity[1], official.usedStrings)) = 1
    THEN IF showBungieDescription(flag, toDisplay)
         THEN stripUsedStrings(clarity[1], official.usedStrings)
         ELSE clarity
    ELSE <<>>

EmptyPerkDescriptions == [perks |-> <<>>, usedStrings |-> {}]
EmptyResult == [perks |-> <<>>, communityInsight |-> <<>>]

\* Mutant: no fallback to the official text under community-only display.
usePlugDescriptionsNoFallback(p, d, clarity, flag, toDisplay) ==
    IF Len(p) = 0 \/ Len(d) = 0 THEN EmptyResult
    ELSE
    LET official == getPerkDescriptions(p[1], d[1])
        communityInsight == CommunityInsight(official, clarity, flag, toDisplay)
    IN  [perks |->
            IF showBungieDescription(flag, toDisplay) THEN official.perks ELSE <<>>,
         communityInsight |-> communityInsight]

usePlugDescriptions(p, d, clarity, flag, toDisplay) ==
    IF Len(p) = 0 \/ Len(d) = 0 THEN EmptyResult
    ELSE
    LET official == getPerkDescriptions(p[1], d[1])
        communityInsight == CommunityInsight(official, clarity, flag, toDisplay)
    IN  [perks |->
            IF \/ showBungieDescription(flag, toDisplay)
               \/ (showCommunityDescriptionOnly(flag, toDisplay) /\ Len(communityInsight) = 0)
            THEN official.perks
            ELSE <<>>,
         communityInsight |-> communityInsight]

(***************************************************************************)
(* Inputs                                                                  *)
(***************************************************************************)
Hashes == {ElementalCapacitor, EnhancedElementalCapacitor, EchoOfPersistence,
           SparkOfFocus, Bipod, AdeptMasterwork, EnhancedIntrinsic, DualListed,
           OtherHash}
StatHashes == {Mobility, Resilience, Recovery, BlastRadius, ReloadSpeed}
StatValues == {-3, 5}

RawStats(types) ==
    [statTypeHash : types, value : StatValues, isConditionallyActive : BOOLEAN]

\* definitions without investment stats
DefHeads(hashes) ==
    [hash : hashes,
     traitHashes : {{}, {ItemExoticCatalyst}},
     plug : [plugCategoryHash : {CraftingPlugsWeaponsModsEnhancers, OtherPlugCategory}]]

WithStats(h, investmentStats) ==
    [hash |-> h.hash, traitHashes |-> h.traitHashes, plug |-> h.plug,
     investmentStats |-> investmentStats]

SeqsUpTo(S, n) == UNION {[1..k -> S] : k \in 0..n}

\* lists whose entries all have different stat types
DistinctTypeLists(types) ==
    {l \in SeqsUpTo(RawStats(types), Cardinality(types)) :
        \A i, j \in 1..Len(l) : i # j => l[i].statTypeHash # l[j].statTypeHash}

\* The raw investmentStats lists: every list of up to MaxStats entries of two
\* stat types (repeated types, the [A, B, A, B] shape), and every list of
\* entries of four different stat types.
RawStatLists ==
    SeqsUpTo(RawStats({Mobility, BlastRadius}), MaxStats)
    \cup DistinctTypeLists({Mobility, Resilience, BlastRadius, ReloadSpeed})

StatsDefHashes == {Bipod, ElementalCapacitor, EchoOfPersistence, OtherHash}

CraftedInfos == {<<>>} \cup {<<[level |-> l]>> : l \in {0, 19, 20, 21}}
Items ==
    {<<>>} \cup
    {<<i>> : i \in [hash : {AdeptWeapon, PlainWeapon}, classType : DestinyClass,
                    masterwork : BOOLEAN, craftedInfo : CraftedInfos]}
Rules ==
    {NoRule, [rule |-> "never"], [rule |-> "masterwork"], [rule |-> "adeptWeapon"],
     [rule |-> "enhancedIntrinsic"]}
    \cup {[rule |-> "classType", classType |-> c] : c \in {Titan, Hunter, Warlock}}

\* Description inputs.  Perk hashes P1 and P2; the sandbox perk of P1 carries
\* the plug's own name, the one of P2 another name.
P1 == "P1"
P2 == "P2"
PlugName == "PlugName"
PerkName == "PerkName"

Perks(requirements) ==
    [perkHash : {P1, P2}, perkVisibility : {Visible, Hidden},
     requirementDisplayString : requirements]

SandboxPerkOf(name, description) ==
    [displayProperties |-> [name |-> name, description |-> description]]

\* the manifest: the sandbox perks of P1, P2 and of Charge Harvester's two
\* perks, the second of which carries the text Echo of Persistence borrows
Manifests(descriptions) ==
    {[SandboxPerk |->
        (P1 :> SandboxPerkOf(PlugName, d1)) @@ (P2 :> SandboxPerkOf(PerkName, d2))
        @@ (ChargeHarvesterPerk0 :> SandboxPerkOf(PerkName, ""))
        @@ (ChargeHarvesterPerk1 :> SandboxPerkOf(PerkName, "b")),
      chargeHarvester |->
        [perks |-> << [perkHash |-> ChargeHarvesterPerk0, perkVisibility |-> Visible,
                       requirementDisplayString |-> ""],
                      [perkHash |-> ChargeHarvesterPerk1, perkVisibility |-> Visible,
                       requirementDisplayString |-> ""] >>]]
     : d1 \in descriptions, d2 \in descriptions}

Plugs(perkLists) ==
    [hash : {EchoOfPersistence, OtherHash},
     traitHashes : {{}, {ItemExoticCatalyst}},
     itemCategoryHashes : {{}, {ArmorMods}},
     displayProperties : [name : {PlugName}, description : {"", "a"}],
     perks : perkLists]

\* community insights: a line has no lineText, or contents with the text "a"
\* (which official descriptions use too), the text "c" (which they never use)
\* or no text at all (an icon or link)
LineTexts ==
    { <<[text |-> "a"]>>, <<[text |-> "c"]>>, <<[text |-> "a"], [text |-> "c"]>>,
      <<[text |-> ""], [text |-> "a"]>> }
Lines == {[lineText |-> <<>>]} \cup {[lineText |-> <<t>>] : t \in LineTexts}
ClarityPerks ==
    {<<>>}
    \cup {<<[statOnly |-> TRUE, simpleDescription |-> << <<[lineText |-> <<<<[text |-> "c"]>>>>]>> >>]>>}
    \cup {<<[statOnly |-> FALSE, simpleDescription |-> <<>>]>>}
    \cup {<<[statOnly |-> FALSE, simpleDescription |-> <<ls>>]>> : ls \in SeqsUpTo(Lines, MaxLines)}

\* what usePlugDescriptions gets as <<plug, defs>>: a plug with at most one
\* perk and a loaded manifest, or no plug, or no manifest yet
HookPlugs == Plugs({<<>>} \cup {<<x>> : x \in Perks({"", "b"})})
HookDefinitions ==
    {<< <<p>>, <<d>> >> : p \in HookPlugs, d \in Manifests({"", "a"})}
    \cup {<< <<>>, <<d>> >> : d \in Manifests({""})}
    \cup {<< <<p>>, <<>> >> : p \in Plugs({<<>>})}

NoDef == WithStats([hash |-> OtherHash, traitHashes |-> {},
                    plug |-> [plugCategoryHash |-> OtherPlugCategory]], <<>>)
NoStat == [statTypeHash |-> Mobility, value |-> 5, isConditionallyActive |-> FALSE]

Init ==
    /\ pc = "idle"
    /\ itemDef = NoDef
    /\ stat = NoStat
    /\ rule = NoRule
    /\ item = <<>>
    /\ classType = UNDEFINED
    /\ active = TRUE
    /\ stats = <<>>
    /\ log = {}
    /\ plug = <<>>
    /\ defs = <<>>
    /\ clarityPerk = <<>>
    /\ descriptionsToDisplay = "both"
    /\ clarityDescriptions = TRUE
    /\ perkDescriptions = EmptyPerkDescriptions
    /\ result = EmptyResult

descVars == <<plug, defs, clarityPerk, descriptionsToDisplay, clarityDescriptions,
              perkDescriptions, result>>

\* getPlugInvestmentStatActivityRule(itemDef, stat)
ResolveActivityRule ==
    /\ pc = "idle"
    /\ \E h \in DefHeads(Hashes), s \in RawStats(StatHashes) :
        /\ itemDef' = WithStats(h, <<s>>)
        /\ stat' = s
        /\ rule' = getPlugInvestmentStatActivityRule(WithStats(h, <<s>>), s)
        /\ log' = ActivityRuleWarnings(WithStats(h, <<s>>), s)
    /\ pc' = "getPlugInvestmentStatActivityRule"
    /\ UNCHANGED <<item, classType, active, stats>>
    /\ UNCHANGED descVars

\* isPlugStatActive(rule, item, classType)
IsPlugStatActive ==
    /\ pc = "idle"
    /\ \E r \in Rules, it \in Items, ct \in DestinyClass \cup {UNDEFINED} :
        /\ rule' = r
        /\ item' = it
        /\ classType' = ct
        /\ active' = isPlugStatActive(r, it, ct)
        /\ log' = isPlugStatActiveWarnings(r, it, ct)
    /\ pc' = "isPlugStatActive"
    /\ UNCHANGED <<itemDef, stat, stats>>
    /\ UNCHANGED descVars

\* mapAndFilterInvestmentStats(itemDef)
MapAndFilterInvestmentStats ==
    /\ pc = "idle"
    /\ \E h \in DefHeads(StatsDefHashes), raw \in RawStatLists :
        /\ itemDef' = WithStats(h, raw)
        /\ stats' = mapAndFilterInvestmentStats(WithStats(h, raw))
        /\ log' = mapAndFilterWarnings(WithStats(h, raw))
    /\ pc' = "mapAndFilterInvestmentStats"
    /\ UNCHANGED <<stat, rule, item, classType, active>>
    /\ UNCHANGED descVars

\* getPerkDescriptions(plug, defs)
GetPerkDescriptions ==
    /\ pc = "idle"
    /\ \E p \in Plugs(SeqsUpTo(Perks({"", "a", "b"}), MaxPerks)),
          d \in Manifests({"", "a", "b"}) :
        /\ plug' = <<p>>
        /\ defs' = <<d>>
        /\ perkDescriptions' = getPerkDescriptions(p, d)
    /\ pc' = "getPerkDescriptions"
    /\ UNCHANGED <<itemDef, stat, rule, item, classType, active, stats, log>>
    /\ UNCHANGED <<clarityPerk, descriptionsToDisplay, clarityDescriptions, result>>

\* usePlugDescriptions(plug), with what its selectors return
UsePlugDescriptions ==
    /\ pc = "idle"
    /\ \E pd \in HookDefinitions,
          c \in ClarityPerks,
          flag \in BOOLEAN,
          toDisplay \in {"bungie", "community", "both"} :
        /\ plug' = pd[1]
        /\ defs' = pd[2]
        /\ clarityPerk' = c
        /\ clarityDescriptions' = flag
        /\ descriptionsToDisplay' = toDisplay
        /\ perkDescriptions' =
            IF Len(pd[1]) = 1 /\ Len(pd[2]) = 1
            THEN getPerkDescriptions(pd[1][1], pd[2][1])
            ELSE EmptyPerkDescriptions
        /\ result' = usePlugDescriptions(pd[1], pd[2], c, flag, toDisplay)
    /\ pc' = "usePlugDescriptions"
    /\ UNCHANGED <<itemDef, stat, rule, item, classType, active, stats, log>>

NextRule == ResolveActivityRule \/ IsPlugStatActive
NextStats == MapAndFilterInvestmentStats
NextDesc == GetPerkDescriptions \/ UsePlugDescriptions
Next == NextRule \/ NextStats \/ NextDesc

SpecRule == Init /\ [][NextRule]_vars
SpecStats == Init /\ [][NextStats]_vars
SpecDesc == Init /\ [][NextDesc]_vars
Spec == Init /\ [][Next]_vars

(***************************************************************************)
(* Claims about getPlugInvestmentStatActivityRule and isPlugStatActive,    *)
(* checked under SpecRule.                                                 *)
(***************************************************************************)
Resolved == pc = "getPlugInvestmentStatActivityRule"
IsCapacitor(d) == d.hash \in {ElementalCapacitor, EnhancedElementalCapacitor}
HasCatalystTrait(d) == ItemExoticCatalyst \in d.traitHashes

\* C1 as stated: for the two elemental-capacitor identifiers the resolved
\* rule is never-active for every stat entry, whether or not the entry's
\* isConditionallyActive flag is set.
C1_NeverRegardlessOfFlag ==
    (Resolved /\ IsCapacitor(itemDef)) => rule = [rule |-> "never"]

\* C1 amended: for the two elemental-capacitor identifiers the resolved rule
\* is never-active for every stat entry whose isConditionallyActive flag is
\* set, provided the definition lacks the exotic-catalyst trait; with the flag
\* unset (and no trait) the rule is none, and with the trait it is masterwork.
C1_NeverWhenConditional ==
    (Resolved /\ IsCapacitor(itemDef)) =>
        /\ (~HasCatalystTrait(itemDef) /\ stat.isConditionallyActive)
                => rule = [rule |-> "never"]
        /\ (~HasCatalystTrait(itemDef) /\ ~stat.isConditionallyActive)
                => rule = NoRule
        /\ HasCatalystTrait(itemDef) => rule = [rule |-> "masterwork"]

C1_Witness ==
    /\ Resolved
    /\ itemDef.hash = EnhancedElementalCapacitor
    /\ ~HasCatalystTrait(itemDef)
    /\ itemDef.plug.plugCategoryHash = OtherPlugCategory
    /\ stat.isConditionallyActive
    /\ rule = [rule |-> "never"]

\* The ladder's branch conditions, by number.
Branch(n, d, s) ==
    CASE n = 1 -> HasCatalystTrait(d)
      [] n = 2 -> ~s.isConditionallyActive
      [] n = 3 -> d.plug.plugCategoryHash = CraftingPlugsWeaponsModsEnhancers
      [] n = 4 -> IsCapacitor(d)
      [] n = 5 -> d.hash \in {EchoOfPersistence, SparkOfFocus}
      [] n = 6 -> d.hash \in masterworksWithCondStats
      [] n = 7 -> d.hash \in enhancedIntrinsics
      [] OTHER -> TRUE

\* The rule each branch gives.
BranchRule(n, s) ==
    CASE n = 1 -> [rule |-> "masterwork"]
      [] n = 2 -> NoRule
      [] n = 3 -> [rule |-> "never"]
      [] n = 4 -> [rule |-> "never"]
      [] n = 5 -> IF s.statTypeHash = Mobility
                    THEN [rule |-> "classType", classType |-> Hunter]
                  ELSE IF s.statTypeHash = Resilience
                    THEN [rule |-> "classType", classType |-> Titan]
                  ELSE IF s.statTypeHash = Recovery
                    THEN [rule |-> "classType", classType |-> Warlock]
                  ELSE NoRule
      [] n = 6 -> [rule |-> "adeptWeapon"]
      [] n = 7 -> [rule |-> "enhancedIntrinsic"]
      [] OTHER -> NoRule

\* C2: the resolved rule is the rule of the first branch of the priority
\* ladder (1 catalyst trait -> masterwork, 2 flag unset -> none, 3 weapon
\* enhancer -> never, 4 elemental capacitor -> never, 5 class-ability drain ->
\* classType by stat or none, 6 adept-masterwork list -> adeptWeapon,
\* 7 enhanced-intrinsic list -> enhancedIntrinsic, 8 otherwise none) whose
\* condition holds, never that of a later one.
C2_FirstMatchingBranch ==
    Resolved =>
        \A n \in 1..8 :
            (Branch(n, itemDef, stat) /\ \A m \in 1..(n - 1) : ~Branch(m, itemDef, stat))
                => rule = BranchRule(n, stat)

\* several branches match at once (5, 6 and 7) and the earliest one decides
C2_Witness ==
    /\ Resolved
    /\ itemDef.hash = SparkOfFocus
    /\ \A m \in 1..4 : ~Branch(m, itemDef, stat)
    /\ Branch(5, itemDef, stat) /\ Branch(6, itemDef, stat) /\ Branch(7, itemDef, stat)
    /\ stat.statTypeHash = Recovery
    /\ rule = [rule |-> "classType", classType |-> Warlock]

Evaluated == pc = "isPlugStatActive"
ItemDependent(r) == r.rule \in {"classType", "adeptWeapon", "masterwork", "enhancedIntrinsic"}

\* C4: isPlugStatActive fails open when context is missing: with no item and
\* no classType it returns true and logs a warning for the classType,
\* adeptWeapon, masterwork and enhancedIntrinsic rules, returns true without
\* a warning for no rule, and false for never; with an item nothing is logged
\* and the item decides (adept allow-list membership, the masterwork flag,
\* crafted level >= 20 or adept membership).
C4_FailOpen ==
    Evaluated =>
        /\ (item = <<>> /\ classType = UNDEFINED) =>
            /\ ItemDependent(rule) => (active /\ log # {})
            /\ rule = NoRule => (active /\ log = {})
            /\ rule.rule = "never" => ~active
        /\ item # <<>> =>
            /\ log = {}
            /\ rule.rule = "adeptWeapon" => (active <=> item[1].hash \in adeptWeaponHashes)
            /\ rule.rule = "masterwork" => (active <=> item[1].masterwork)
            /\ rule.rule = "enhancedIntrinsic" =>
                (active <=> \/ item[1].hash \in adeptWeaponHashes
                            \/ /\ item[1].craftedInfo # <<>>
                               /\ item[1].craftedInfo[1].level >= 20)
            /\ rule.rule = "classType" =>
                (active <=> rule.classType =
                    (IF classType # UNDEFINED THEN classType ELSE item[1].classType))

C4_Witness ==
    /\ Evaluated
    /\ rule.rule = "masterwork"
    /\ item = <<>>
    /\ classType = UNDEFINED
    /\ active
    /\ log = {"stat condition depends on item but we do not have an item here"}

(***************************************************************************)
(* Claims about mapAndFilterInvestmentStats, checked under SpecStats.      *)
(***************************************************************************)
Mapped == pc = "mapAndFilterInvestmentStats"
RawTypes == {itemDef.investmentStats[i].statTypeHash : i \in 1..Len(itemDef.investmentStats)}
CountOfType(s, t) == Cardinality({i \in 1..Len(s) : s[i].statTypeHash = t})

RECURSIVE SumFrom(_, _, _)
SumFrom(s, t, i) ==
    IF i > Len(s) THEN 0
    ELSE (IF s[i].statTypeHash = t THEN s[i].value ELSE 0) + SumFrom(s, t, i + 1)
SumOfType(s, t) == SumFrom(s, t, 1)

FirstOfType(s, t) ==
    s[CHOOSE i \in 1..Len(s) :
        s[i].statTypeHash = t /\ \A j \in 1..(i - 1) : s[j].statTypeHash # t]

\* the merged entry of stat type t resolves to never-active
NeverActive(d, t) ==
    /\ ~HasCatalystTrait(d)
    /\ FirstOfType(d.investmentStats, t).isConditionallyActive
    /\ \/ d.plug.plugCategoryHash = CraftingPlugsWeaponsModsEnhancers
       \/ IsCapacitor(d)

\* C3 as stated: for every stat type with several raw entries the result has
\* exactly one entry of that type, and its value is the sum of the raw values
\* of that type, whatever the identifier, traits, plug category and flags.
C3_ExactlyOneSummedEntry ==
    Mapped =>
        \A t \in RawTypes :
            CountOfType(itemDef.investmentStats, t) >= 2 =>
                /\ CountOfType(stats, t) = 1
                /\ \A i \in 1..Len(stats) :
                    stats[i].statTypeHash = t =>
                        stats[i].value = SumOfType(itemDef.investmentStats, t)

\* C3 amended: the result has at most one entry of each stat type of the raw
\* entries, and a returned entry's value is the sum of the raw values of that
\* type.  For every identifier but Bipod there is exactly one unless the
\* merged entry is never-active (first raw entry of the type conditionally
\* active, no exotic-catalyst trait, and a weapon-enhancer plug category or an
\* elemental-capacitor identifier), and then there is none.
C3_AtMostOneSummedEntry ==
    Mapped =>
        \A t \in RawTypes :
            /\ CountOfType(stats, t) <= 1
            /\ \A i \in 1..Len(stats) :
                stats[i].statTypeHash = t =>
                    stats[i].value = SumOfType(itemDef.investmentStats, t)
            /\ itemDef.hash # Bipod =>
                (CountOfType(stats, t) = 1 <=> ~NeverActive(itemDef, t))

\* the documented case: values 5 and -3 of one stat type give one entry of 2
C3_Witness ==
    /\ Mapped
    /\ Len(itemDef.investmentStats) = 2
    /\ itemDef.investmentStats[1].statTypeHash = itemDef.investmentStats[2].statTypeHash
    /\ itemDef.investmentStats[1].value = 5
    /\ itemDef.investmentStats[2].value = -3
    /\ itemDef.investmentStats[1].isConditionallyActive
    /\ Len(stats) = 1
    /\ stats[1].value = 2

\* C9: for Bipod with exactly four raw entries, all conditionally active, in
\* the documented shape [A, B, A, B] (and no weapon-enhancer plug category,
\* so that no entry is never-active), the result is the first two raw
\* entries with their own values; the third and fourth contribute nothing.
C9_BipodKeepsFirstTwo ==
    LET raw == itemDef.investmentStats IN
    ( /\ Mapped
      /\ itemDef.hash = Bipod
      /\ itemDef.plug.plugCategoryHash # CraftingPlugsWeaponsModsEnhancers
      /\ Len(raw) = 4
      /\ \A i \in 1..4 : raw[i].isConditionallyActive
      /\ raw[1].statTypeHash = raw[3].statTypeHash
      /\ raw[2].statTypeHash = raw[4].statTypeHash
      /\ raw[1].statTypeHash # raw[2].statTypeHash )
    => /\ Len(stats) = 2
       /\ \A i \in 1..2 :
            /\ stats[i].statTypeHash = raw[i].statTypeHash
            /\ stats[i].value = raw[i].value

\* C10: the fast path needs no postprocessing: for a definition without the
\* exotic-catalyst trait whose merged entries are all not conditionally
\* active, the result has the stat types and values that the full per-entry
\* elaboration (Bipod correction, rule resolution, dropping never-active
\* entries, consolidation) produces, every rule there is none, and the
\* duplicate flag computed after merging is not true.
C10_FastPathEqualsFullElaboration ==
    LET merged == getPlugInvestmentStats(itemDef.investmentStats)
        full == FullElaboration(itemDef, merged)
    IN  ( /\ Mapped
          /\ ~HasCatalystTrait(itemDef)
          /\ \A i \in 1..Len(merged) : ~merged[i].isConditionallyActive )
        => /\ ~hasDupes(itemDef, merged)
           /\ Len(stats) = Len(full)
           /\ \A i \in 1..Len(full) :
                /\ full[i].activityRule = NoRule
                /\ i <= Len(stats) =>
                    /\ stats[i].statTypeHash = full[i].statTypeHash
                    /\ stats[i].value = full[i].value

(***************************************************************************)
(* Claims about getPerkDescriptions and usePlugDescriptions, checked under *)
(* SpecDesc.                                                               *)
(***************************************************************************)
Described == pc = "getPerkDescriptions"
Composed == pc = "usePlugDescriptions" /\ plug # <<>> /\ defs # <<>>

\* the description and requirement texts of a perk description list, by place
TextAt(perks, slot) ==
    IF slot[2] = "description" THEN perks[slot[1]].description
    ELSE perks[slot[1]].requirement
Slots(perks) == (1..Len(perks)) \X {"description", "requirement"}
NoRepeatedText(perks) ==
    \A x, y \in Slots(perks) :
        (x # y /\ Truthy(TextAt(perks, x))) => TextAt(perks, x) # TextAt(perks, y)
OfficialStrings(perks) ==
    {TextAt(perks, x) : x \in {y \in Slots(perks) : Truthy(TextAt(perks, y))}}

\* C5: in the perk description list of one plug no text occurs twice: every
\* description and requirement value differs from every other description
\* or requirement value of the list (in getPerkDescriptions' list and in the
\* list usePlugDescriptions returns).
C5_NoRepeatedText ==
    /\ NoRepeatedText(perkDescriptions.perks)
    /\ NoRepeatedText(result.perks)

\* a catalyst whose perk has "a" as description and as requirement and whose
\* own description is "a" too: the text is shown once
C5_Witness ==
    /\ Described
    /\ HasCatalystTrait(plug[1])
    /\ plug[1].hash = OtherHash
    /\ plug[1].displayProperties.description = "a"
    /\ Len(plug[1].perks) = 1
    /\ plug[1].perks[1].perkVisibility = Visible
    /\ plug[1].perks[1].requirementDisplayString = "a"
    /\ defs[1].SandboxPerk[plug[1].perks[1].perkHash].displayProperties.description = "a"
    /\ Len(perkDescriptions.perks) = 1
    /\ perkDescriptions.perks[1].description = "a"
    /\ perkDescriptions.perks[1].requirement = UNDEFINED

ArmorModWithoutPerks ==
    /\ Composed
    /\ ArmorMods \in plug[1].itemCategoryHashes
    /\ plug[1].perks = <<>>
    /\ plug[1].displayProperties.description # ""

DescriptionOnly(text) ==
    << [perkHash |-> NoPerkHash, name |-> UNDEFINED,
        description |-> text, requirement |-> UNDEFINED] >>

\* C6 as stated: for an armor mod with no perks and a non-empty description
\* the returned list is exactly one entry, with that description and no
\* requirement, for every display preference and whatever other traits.
\* (Stated for the identifiers with no special case of their own, so that the
\* violation shown is one of a trait or a display preference.)
C6_ArmorModDescriptionAlways ==
    (ArmorModWithoutPerks /\ plug[1].hash # EchoOfPersistence) =>
        result.perks = DescriptionOnly(plug[1].displayProperties.description)

\* C6 amended: for an armor mod with no perks and a non-empty description,
\* without the exotic-catalyst trait and other than Echo of Persistence, the
\* returned list is exactly one entry, with that description and no
\* requirement, except under community-only display with a community insight
\* in the result, where no perk entry is returned.
C6_ArmorModDescription ==
    ( /\ ArmorModWithoutPerks
      /\ ~HasCatalystTrait(plug[1])
      /\ plug[1].hash # EchoOfPersistence )
    => IF /\ clarityDescriptions
          /\ descriptionsToDisplay = "community"
          /\ result.communityInsight # <<>>
       THEN result.perks = <<>>
       ELSE result.perks = DescriptionOnly(plug[1].displayProperties.description)

C6_Witness ==
    /\ ArmorModWithoutPerks
    /\ ~HasCatalystTrait(plug[1])
    /\ plug[1].hash # EchoOfPersistence
    /\ descriptionsToDisplay = "both"
    /\ clarityDescriptions
    /\ result.perks = DescriptionOnly("a")

\* the contents of a community insight, all lines together
ContentsOf(insight) ==
    IF insight.simpleDescription = <<>> THEN {}
    ELSE UNION { IF insight.simpleDescription[1][i].lineText = <<>> THEN {}
                 ELSE { insight.simpleDescription[1][i].lineText[1][j] :
                            j \in 1..Len(insight.simpleDescription[1][i].lineText[1]) }
                 : i \in 1..Len(insight.simpleDescription[1]) }

ShownTogether == Composed /\ clarityDescriptions /\ descriptionsToDisplay = "both"

\* C7: when community text is shown together with official text, the
\* community insight of the result has no text content equal to a string the
\* official description entries use, and it is there only if a line with
\* remaining text content is left: otherwise it is omitted, not returned
\* empty.
C7_StrippedInsightHasUniqueText ==
    (ShownTogether /\ result.communityInsight # <<>>) =>
        /\ \A c \in ContentsOf(result.communityInsight[1]) :
                c.text \notin OfficialStrings(result.perks)
        /\ \E c \in ContentsOf(result.communityInsight[1]) : c.text # ""

CommunityOnly == Composed /\ clarityDescriptions /\ descriptionsToDisplay = "community"

\* no content of the looked-up community perk is left once the contents whose
\* text the official entries use are taken out
NothingLeft ==
    \A c \in ContentsOf(clarityPerk[1]) :
        c.text # "" /\ c.text \in OfficialStrings(perkDescriptions.perks)

====
